---------------------------- MODULE Spec2Model ----------------------------
(***************************************************************************)
(* A model of multivectors.py: the 8-component MultiVector of Cl(3,0), its *)
(* operators, the metric table MultiVector.METRIC and rotor rotation.      *)
(*                                                                         *)
(* A MultiVector owns one array `comp` of 8 numbers and never rebinds it,  *)
(* so a MultiVector is modelled by the address of its comp array, and the  *)
(* variable `heap` maps every live address to the 8 components stored      *)
(* there.  Component values are integers (exact arithmetic).               *)
(***************************************************************************)
EXTENDS Integers, Sequences, FiniteSets, TLC

VARIABLES heap, reg, last, nsteps

vars == <<heap, reg, last, nsteps>>

Idx == 0..7

-----------------------------------------------------------------------------
(* Bounds of the model.                                                    *)

\* the caller's calls per run of the API machine (specification Spec)
MaxSteps == 2
\* scalars the caller passes (coordinates, factors, written values): 0..MaxScalar
MaxScalar == 1
\* how far beyond the array's ends the caller's indices go
MaxKeyOver == 1
\* coefficients of the left factor in SpecAlgebra: -MaxCoef..MaxCoef
MaxCoef == 1
\* coordinates in SpecRotate: the vector's 0..MaxCoord, the axis' -MaxCoord..MaxCoord
MaxCoord == 1
\* half-angle cosine 0..MaxTrig and sine -MaxTrig..MaxTrig in SpecRotate
MaxTrig == 2

-----------------------------------------------------------------------------
(* Addresses of the arrays made while the module is imported.              *)

ZERO == 0
ONE == 1
VECX == 2
VECY == 3
VECZ == 4
AXIX == 5
AXIY == 6
AXIZ == 7
IMAG == 8

Named == {ZERO, ONE, VECX, VECY, VECZ, AXIX, AXIY, AXIZ, IMAG}

VECTOR_BASIS == <<VECX, VECY, VECZ>>
AXIS_BASIS == <<AXIX, AXIY, AXIZ>>

\* MultiVector(real, vecx, vecy, vecz, axix, axiy, axiz, imag): the new comp array
MultiVector(real, vecx, vecy, vecz, axix, axiy, axiz, imag) ==
    [i \in Idx |-> CASE i = 0 -> real [] i = 1 -> vecx [] i = 2 -> vecy
                     [] i = 3 -> vecz [] i = 4 -> axix [] i = 5 -> axiy
                     [] i = 6 -> axiz [] OTHER -> imag]

\* the components the named constants are constructed with
NamedComp(n) ==
    CASE n = ZERO -> MultiVector(0, 0, 0, 0, 0, 0, 0, 0)
      [] n = ONE  -> MultiVector(1, 0, 0, 0, 0, 0, 0, 0)
      [] n = VECX -> MultiVector(0, 1, 0, 0, 0, 0, 0, 0)
      [] n = VECY -> MultiVector(0, 0, 1, 0, 0, 0, 0, 0)
      [] n = VECZ -> MultiVector(0, 0, 0, 1, 0, 0, 0, 0)
      [] n = AXIX -> MultiVector(0, 0, 0, 0, 1, 0, 0, 0)
      [] n = AXIY -> MultiVector(0, 0, 0, 0, 0, 1, 0, 0)
      [] n = AXIZ -> MultiVector(0, 0, 0, 0, 0, 0, 1, 0)
      [] OTHER    -> MultiVector(0, 0, 0, 0, 0, 0, 0, 1)

\* an entry of the module-level list METRIC: a named constant, or its negation
P(n) == [neg |-> FALSE, of |-> n]
N(n) == [neg |-> TRUE, of |-> n]

\* the module-level list METRIC (rows j, columns k, both 0..7 in the source)
METRIC_LIST == <<
    <<P(ONE),  P(VECX), P(VECY), P(VECZ), P(AXIX), P(AXIY), P(AXIZ), P(IMAG)>>,
    <<P(VECX), P(ONE),  P(AXIX), N(AXIZ), P(VECY), P(IMAG), N(VECZ), P(AXIY)>>,
    <<P(VECY), N(AXIX), P(ONE),  P(AXIY), N(VECX), P(VECZ), P(IMAG), P(AXIZ)>>,
    <<P(VECZ), P(AXIZ), N(AXIY), P(ONE),  P(IMAG), N(VECY), P(VECX), P(AXIX)>>,
    <<P(AXIX), N(VECY), P(VECX), P(IMAG), N(ONE),  N(AXIZ), P(AXIY), N(VECZ)>>,
    <<P(AXIY), P(IMAG), N(VECZ), P(VECY), P(AXIZ), N(ONE),  N(AXIX), N(VECX)>>,
    <<P(AXIZ), P(VECZ), P(IMAG), N(VECX), N(AXIY), P(AXIX), N(ONE),  N(VECY)>>,
    <<P(IMAG), P(AXIY), P(AXIZ), P(AXIX), N(VECZ), N(VECX), N(VECY), N(ONE)>> >>

\* -X in the list calls __neg__, which makes a new MultiVector with a new comp
\* array: the one made for row j, column k lives at TempAddr(j, k)
TempBase == Cardinality(Named)
TempAddr(j, k) == TempBase + 8 * j + k

NegPos == {p \in Idx \X Idx : METRIC_LIST[p[1] + 1][p[2] + 1].neg}
Temps == {TempAddr(p[1], p[2]) : p \in NegPos}

\* [res.comp for res in row] from column k on: the address of each entry's comp
\* array, the named constant's own array where the entry is not negated
RECURSIVE CompRow(_, _)
CompRow(j, k) ==
    IF k > 7 THEN <<>>
    ELSE LET e == METRIC_LIST[j + 1][k + 1]
         IN  <<IF e.neg THEN TempAddr(j, k) ELSE e.of>> \o CompRow(j, k + 1)

\* [[res.comp for res in row] for row in METRIC] from row j on
RECURSIVE CompRows(_)
CompRows(j) == IF j > 7 THEN <<>> ELSE <<CompRow(j, 0)>> \o CompRows(j + 1)

\* MultiVector.METRIC: METRIC[j + 1][k + 1] is the source's METRIC[j][k]
METRIC == CompRows(0)

\* Python's None, and the first address free for the caller's own objects
NoneRef == TempBase + 64
SlotBase == NoneRef + 1

-----------------------------------------------------------------------------
(* The operators, on component arrays.                                     *)

\* __neg__
neg(x) == [i \in Idx |-> 0 - x[i]]

\* __add__
add(x, y) == [i \in Idx |-> x[i] + y[i]]

\* __sub__
sub(x, y) == [i \in Idx |-> x[i] - y[i]]

\* sum([f[0], ..., f[7]])
Sum8(f) == f[0] + f[1] + f[2] + f[3] + f[4] + f[5] + f[6] + f[7]

\* __mul__ with the inner loop one short, range(7): the IMAG component of the
\* right operand is never read
mul_short(h, x, y) ==
    [i \in Idx |->
        Sum8([j \in Idx |->
            Sum8([k \in Idx |->
                IF k = 7 THEN 0 ELSE x[j] * y[k] * h[METRIC[j + 1][k + 1]][i]])])]

\* __mul__ with the table's indices exchanged, METRIC[k][j]
mul_swapped(h, x, y) ==
    [i \in Idx |->
        Sum8([j \in Idx |->
            Sum8([k \in Idx |-> x[j] * y[k] * h[METRIC[k + 1][j + 1]][i]])])]

\* __mul__ by another MultiVector: reads MultiVector.METRIC[j][k][i] in heap h
mul(h, x, y) ==
    [i \in Idx |->
        Sum8([j \in Idx |->
            Sum8([k \in Idx |-> x[j] * y[k] * h[METRIC[j + 1][k + 1]][i]])])]

\* __mul__ by an int or a float
scale(x, s) == [i \in Idx |-> x[i] * s]

\* the heap when the module has been imported
ModuleHeap ==
    [a \in Named \cup Temps |->
        IF a \in Named THEN NamedComp(a)
        ELSE LET jk == CHOOSE p \in Idx \X Idx : TempAddr(p[1], p[2]) = a
             IN  neg(NamedComp(METRIC_LIST[jk[1] + 1][jk[2] + 1].of))]


\* get_vector(x, y, z)
get_vector(x, y, z) == MultiVector(0, x, y, z, 0, 0, 0, 0)

\* get_axis(x, y, z)
get_axis(x, y, z) == MultiVector(0, 0, 0, 0, x, y, z, 0)

\* rotor2(axis, theta_cos, theta_sin)
rotor2(axis, theta_cos, theta_sin) ==
    MultiVector(theta_cos, 0, 0, 0,
                axis[4] * theta_sin, axis[5] * theta_sin, axis[6] * theta_sin, 0)

\* rotate3(l_rot, r_rot): (l_rot * self) * r_rot, the left product stored
\* before the right one reads it
rotate3(h, self, l_rot, r_rot) ==
    LET left == mul(h, l_rot, self)
        lv == <<left[0], left[1], left[2], left[3], left[4], left[5], left[6], left[7]>>
    IN  mul(h, [i \in Idx |-> lv[i + 1]], r_rot)

\* rotate2 with the right rotor's sine not negated
rotate2_same_sine(h, self, axis, cos2, sin2) ==
    rotate3(h, self, rotor2(axis, cos2, sin2), rotor2(axis, cos2, sin2))

\* rotate2(axis, cos2, sin2)
rotate2(h, self, axis, cos2, sin2) ==
    rotate3(h, self, rotor2(axis, cos2, sin2), rotor2(axis, cos2, 0 - sin2))

\* math.cos and math.sin at q quarter turns, exact
cos(q) == CASE q % 4 = 0 -> 1 [] q % 4 = 2 -> 0 - 1 [] OTHER -> 0
sin(q) == CASE q % 4 = 1 -> 1 [] q % 4 = 3 -> 0 - 1 [] OTHER -> 0

\* rotor(axis, theta), theta = q quarter turns
rotor(axis, q) == rotor2(axis, cos(q), sin(q))

\* rotate(axis, theta), theta / 2 = q quarter turns
rotate(h, self, axis, q) == rotate2(h, self, axis, cos(q), sin(q))

\* sum([c * v for c, v in zip(comps, system)], MultiVector.ZERO) over the first
\* n pairs, n >= 1: each + is __add__, each c * v is v.__rmul__(c) = v * c
RECURSIVE sum(_, _, _, _)
sum(h, system, comps, n) ==
    IF n = 0 THEN h[ZERO]
    ELSE add(sum(h, system, comps, n - 1), scale(h[system[n]], comps[n]))

-----------------------------------------------------------------------------
(* The caller.  reg maps each of the caller's variables to the address it  *)
(* holds (NoneRef for None).  A variable holds a named constant's address, *)
(* None, or the object a call made for it, which lives at Slot(variable):  *)
(* no call returns one of its operands, so no two variables share a slot,  *)
(* and an object is dropped from the heap when its variable is rebound.    *)

RegOrder == <<"p", "q", "a", "b", "c", "ab", "ba", "ab_c", "bc", "a_bc",
              "s", "a_s", "ac", "ab_ac", "v", "axis", "w">>

Slot(r) == SlotBase + (CHOOSE n \in 1..Len(RegOrder) : RegOrder[n] = r)

Store(h, r, comps) ==
    [a \in DOMAIN h \cup {Slot(r)} |-> IF a = Slot(r) THEN comps ELSE h[a]]

Free(h, r) == [a \in DOMAIN h \ {Slot(r)} |-> h[a]]

\* what the last call was: its name, the variable its result is bound to, the
\* kind of its operand or key, two numbers of its arguments, and how it ended
Info(op, dst, kind, key, val, outcome) ==
    [op |-> op, dst |-> dst, kind |-> kind, key |-> key, val |-> val,
     outcome |-> outcome]

\* dst = <call>, the call returning a new MultiVector with components comps
ReturnNew(dst, comps) ==
    /\ heap' = Store(heap, dst, comps)
    /\ reg' = [reg EXCEPT ![dst] = Slot(dst)]

\* dst = <call>, the call returning an object that exists already, or None
ReturnRef(dst, ref) ==
    /\ heap' = Free(heap, dst)
    /\ reg' = [reg EXCEPT ![dst] = ref]

\* the call raises: nothing is bound
Raise == UNCHANGED <<heap, reg>>

IsMV(r) == reg[r] # NoneRef
Val(r) == heap[reg[r]]

Scalars == 0..MaxScalar
Keys == (0 - 8 - MaxKeyOver)..(7 + MaxKeyOver)

-----------------------------------------------------------------------------
(* The calls.  Each is the whole call: what it binds, what it stores, and  *)
(* the record of it in `last`.                                             *)

\* dst = MultiVector.<name>, or an element of VECTOR_BASIS / AXIS_BASIS
Call_named(dst, n) ==
    /\ ReturnRef(dst, n)
    /\ last' = Info("named", dst, "-", n, 0, "returned")

\* dst = MultiVector(<component i> = x), the other components defaulted
Call_MultiVector(dst, i, x) ==
    /\ ReturnNew(dst, [k \in Idx |-> IF k = i THEN x ELSE 0])
    /\ last' = Info("MultiVector", dst, "-", i, x, "returned")

\* dst = MultiVector.get_vector(x, y, z)
Call_get_vector(dst, x, y, z) ==
    /\ ReturnNew(dst, get_vector(x, y, z))
    /\ last' = Info("get_vector", dst, "-", 0, 0, "returned")

\* dst = MultiVector.get_axis(x, y, z)
Call_get_axis(dst, x, y, z) ==
    /\ ReturnNew(dst, get_axis(x, y, z))
    /\ last' = Info("get_axis", dst, "-", 0, 0, "returned")

\* the position array.array reads or writes for an int index
ArrayIndex(key) == IF key < 0 THEN key + 8 ELSE key
InArray(key) == 0 - 8 <= key /\ key <= 7

\* r[key]: __getitem__ returns self.comp[item]
Call_getitem(r, kind, key) ==
    /\ Raise
    /\ last' = IF kind # "int" THEN Info("getitem", r, kind, key, 0, "TypeError")
               ELSE IF InArray(key)
                    THEN Info("getitem", r, kind, key, Val(r)[ArrayIndex(key)], "returned")
                    ELSE Info("getitem", r, kind, key, 0, "IndexError")

\* r[key] = value: __setitem__ stores only under an int key
Call_setitem(r, kind, key, value) ==
    IF kind = "int"
    THEN IF InArray(key)
         THEN /\ heap' = [heap EXCEPT ![reg[r]][ArrayIndex(key)] = value]
              /\ UNCHANGED reg
              /\ last' = Info("setitem", r, kind, key, value, "returned")
         ELSE /\ Raise
              /\ last' = Info("setitem", r, kind, key, value, "IndexError")
    ELSE /\ Raise
         /\ last' = Info("setitem", r, kind, key, value, "returned")

\* dst = -a
Call_neg(dst, a) ==
    /\ ReturnNew(dst, neg(Val(a)))
    /\ last' = Info("neg", dst, "mv", 0, 0, "returned")

\* dst = a + b
Call_add(dst, a, b) ==
    /\ ReturnNew(dst, add(Val(a), Val(b)))
    /\ last' = Info("add", dst, "mv", 0, 0, "returned")

\* dst = a - b
Call_sub(dst, a, b) ==
    /\ ReturnNew(dst, sub(Val(a), Val(b)))
    /\ last' = Info("sub", dst, "mv", 0, 0, "returned")

\* the right operand of *: a MultiVector (its address), an int or float (its
\* value), or anything else
MVOperand(ref) == [kind |-> "mv", ref |-> ref, num |-> 0]
ScalarOperand(x) == [kind |-> "scalar", ref |-> NoneRef, num |-> x]
OtherOperand == [kind |-> "other", ref |-> NoneRef, num |-> 0]

\* dst = a * other: __mul__
Call_mul(dst, a, other) ==
    /\ IF other.kind = "mv"
       THEN ReturnNew(dst, mul(heap, Val(a), heap[other.ref]))
       ELSE IF other.kind = "scalar"
            THEN ReturnNew(dst, scale(Val(a), other.num))
            ELSE ReturnRef(dst, NoneRef)
    /\ last' = Info("mul", dst, other.kind, 0, other.num, "returned")

\* dst = other * a, dispatched to a.__rmul__(other)
Call_rmul(dst, other, a) ==
    /\ IF other.kind = "mv"
       THEN ReturnNew(dst, mul(heap, heap[other.ref], Val(a)))
       ELSE IF other.kind = "scalar"
            THEN ReturnNew(dst, scale(Val(a), other.num))
            ELSE ReturnRef(dst, NoneRef)
    /\ last' = Info("rmul", dst, other.kind, 0, other.num, "returned")

\* dst = MultiVector.linear_combination(system, comps): system a sequence of
\* addresses, comps a sequence of numbers.  sum() of an empty list returns its
\* start value, the object MultiVector.ZERO
Call_linear_combination(dst, system, comps) ==
    /\ IF Len(system) = Len(comps)
       THEN IF Len(system) = 0
            THEN ReturnRef(dst, ZERO)
            ELSE ReturnNew(dst, sum(heap, system, comps, Len(system)))
       ELSE ReturnRef(dst, NoneRef)
    /\ last' = Info("linear_combination", dst, "-", Len(system), Len(comps), "returned")

\* dst = MultiVector.rotor(axis, theta)
Call_rotor(dst, axis, q) ==
    /\ ReturnNew(dst, rotor(Val(axis), q))
    /\ last' = Info("rotor", dst, "mv", q, 0, "returned")

\* dst = MultiVector.rotor2(axis, theta_cos, theta_sin)
Call_rotor2(dst, axis, theta_cos, theta_sin) ==
    /\ ReturnNew(dst, rotor2(Val(axis), theta_cos, theta_sin))
    /\ last' = Info("rotor2", dst, "mv", theta_cos, theta_sin, "returned")

\* dst = self.rotate(axis, theta)
Call_rotate(dst, self, axis, q) ==
    /\ ReturnNew(dst, rotate(heap, Val(self), Val(axis), q))
    /\ last' = Info("rotate", dst, "mv", q, 0, "returned")

\* dst = self.rotate2(axis, cos2, sin2)
Call_rotate2(dst, self, axis, cos2, sin2) ==
    /\ ReturnNew(dst, rotate2(heap, Val(self), Val(axis), cos2, sin2))
    /\ last' = Info("rotate2", dst, "mv", cos2, sin2, "returned")

\* dst = self.rotate3(l_rot, r_rot)
Call_rotate3(dst, self, l_rot, r_rot) ==
    /\ ReturnNew(dst, rotate3(heap, Val(self), Val(l_rot), Val(r_rot)))
    /\ last' = Info("rotate3", dst, "mv", 0, 0, "returned")

-----------------------------------------------------------------------------
(* Specification Spec: a caller with the variables p and q makes up to     *)
(* MaxSteps calls of the API, in any order, on what it holds.              *)

Regs == {"p", "q"}
Held == {r \in Regs : IsMV(r)}

Step == nsteps < MaxSteps /\ nsteps' = nsteps + 1

Systems == {<<>>, VECTOR_BASIS, AXIS_BASIS} \cup {<<reg[r]>> : r \in Held}
Coefs == UNION {[1..n -> Scalars] : n \in {0, 1, 3}}
Operands == {MVOperand(reg[r]) : r \in Held} \cup {ScalarOperand(x) : x \in Scalars}
                \cup {OtherOperand}

Init ==
    /\ heap = ModuleHeap
    /\ reg = [r \in Regs |-> NoneRef]
    /\ last = Info("import", "p", "-", 0, 0, "returned")
    /\ nsteps = 0

LoadNamed == \E d \in Regs, n \in Named : Step /\ Call_named(d, n)

Construct == \E d \in Regs, i \in Idx, x \in Scalars : Step /\ Call_MultiVector(d, i, x)

GetVector == \E d \in Regs, x, y, z \in Scalars : Step /\ Call_get_vector(d, x, y, z)

GetAxis == \E d \in Regs, x, y, z \in Scalars : Step /\ Call_get_axis(d, x, y, z)

GetItem ==
    \E r \in Held, kind \in {"int", "float"}, key \in Keys :
        Step /\ (kind = "float" => key = 0) /\ Call_getitem(r, kind, key)

SetItem ==
    \E r \in Held, kind \in {"int", "float"}, key \in Keys, x \in Scalars :
        Step /\ (kind = "float" => key = 0) /\ Call_setitem(r, kind, key, x)

Neg == \E d \in Regs, a \in Held : Step /\ Call_neg(d, a)

Add == \E d \in Regs, a, b \in Held : Step /\ Call_add(d, a, b)

Sub == \E d \in Regs, a, b \in Held : Step /\ Call_sub(d, a, b)

Mul == \E d \in Regs, a \in Held, other \in Operands : Step /\ Call_mul(d, a, other)

RMul == \E d \in Regs, a \in Held, other \in Operands : Step /\ Call_rmul(d, other, a)

LinearCombination ==
    \E d \in Regs, system \in Systems, comps \in Coefs :
        Step /\ Call_linear_combination(d, system, comps)

Rotor == \E d \in Regs, axis \in Held, q \in 0..3 : Step /\ Call_rotor(d, axis, q)

Rotor2 ==
    \E d \in Regs, axis \in Held, c, s \in Scalars : Step /\ Call_rotor2(d, axis, c, s)

Rotate ==
    \E d \in Regs, self, axis \in Held, q \in 0..3 : Step /\ Call_rotate(d, self, axis, q)

Rotate2 ==
    \E d \in Regs, self, axis \in Held, c, s \in Scalars :
        Step /\ Call_rotate2(d, self, axis, c, s)

Rotate3 ==
    \E d \in Regs, self, l, r \in Held : Step /\ Call_rotate3(d, self, l, r)

Next ==
    \/ LoadNamed \/ Construct \/ GetVector \/ GetAxis \/ GetItem \/ SetItem
    \/ Neg \/ Add \/ Sub \/ Mul \/ RMul \/ LinearCombination
    \/ Rotor \/ Rotor2 \/ Rotate \/ Rotate2 \/ Rotate3

Spec == Init /\ [][Next]_vars

-----------------------------------------------------------------------------
(* Specification SpecAlgebra: for every left factor a with at most two     *)
(* non-zero components and every pair b, c of the basis constants ONE ..   *)
(* IMAG, the caller computes the products and sums below, one call a step. *)

AlgRegs == {"a", "b", "c", "ab", "ba", "ab_c", "bc", "a_bc", "s", "a_s", "ac", "ab_ac"}

Program == <<
    [op |-> "mul", dst |-> "ab",    x |-> "a",  y |-> "b"],
    [op |-> "mul", dst |-> "ba",    x |-> "b",  y |-> "a"],
    [op |-> "mul", dst |-> "ab_c",  x |-> "ab", y |-> "c"],
    [op |-> "mul", dst |-> "bc",    x |-> "b",  y |-> "c"],
    [op |-> "mul", dst |-> "a_bc",  x |-> "a",  y |-> "bc"],
    [op |-> "add", dst |-> "s",     x |-> "b",  y |-> "c"],
    [op |-> "mul", dst |-> "a_s",   x |-> "a",  y |-> "s"],
    [op |-> "mul", dst |-> "ac",    x |-> "a",  y |-> "c"],
    [op |-> "add", dst |-> "ab_ac", x |-> "ab", y |-> "ac"] >>

AlgDone == nsteps = Len(Program)

CoefRange == (0 - MaxCoef)..MaxCoef

\* p at index j plus q at index k
TwoTerms(j, p, k, q) == [i \in Idx |-> IF i = j THEN p ELSE IF i = k THEN q ELSE 0]

LeftFactors ==
    {TwoTerms(t[1], t[2], t[3], t[4]) :
        t \in {u \in Idx \X (CoefRange \ {0}) \X Idx \X CoefRange :
                 \/ u[1] < u[3] /\ u[4] # 0
                 \/ u[1] = u[3] /\ u[4] = 0}}

InitAlgebra ==
    /\ \E x \in LeftFactors : heap = Store(ModuleHeap, "a", x)
    /\ \E bn, cn \in Named \ {ZERO} :
          reg = [r \in AlgRegs |->
                    CASE r = "a" -> Slot("a") [] r = "b" -> bn [] r = "c" -> cn
                      [] OTHER -> NoneRef]
    /\ last = Info("import", "a", "-", 0, 0, "returned")
    /\ nsteps = 0

RunMul ==
    /\ nsteps < Len(Program)
    /\ Program[nsteps + 1].op = "mul"
    /\ Call_mul(Program[nsteps + 1].dst, Program[nsteps + 1].x,
                MVOperand(reg[Program[nsteps + 1].y]))
    /\ nsteps' = nsteps + 1

RunAdd ==
    /\ nsteps < Len(Program)
    /\ Program[nsteps + 1].op = "add"
    /\ Call_add(Program[nsteps + 1].dst, Program[nsteps + 1].x, Program[nsteps + 1].y)
    /\ nsteps' = nsteps + 1

NextAlgebra == RunMul \/ RunAdd

SpecAlgebra == InitAlgebra /\ [][NextAlgebra]_vars

-----------------------------------------------------------------------------
(* Specification SpecRotate: for every vector v and axis, one call of      *)
(* v.rotate2(axis, cos2, sin2) with every half-angle pair.                 *)

RotRegs == {"v", "axis", "w"}

VecCoords == 0..MaxCoord
AxisCoords == (0 - MaxCoord)..MaxCoord

InitRotate ==
    /\ \E x, y, z \in VecCoords, ax, ay, az \in AxisCoords :
          heap = Store(Store(ModuleHeap, "v", get_vector(x, y, z)),
                       "axis", get_axis(ax, ay, az))
    /\ reg = [r \in RotRegs |-> IF r = "w" THEN NoneRef ELSE Slot(r)]
    /\ last = Info("import", "v", "-", 0, 0, "returned")
    /\ nsteps = 0

RunRotate2 ==
    \E cos2 \in 0..MaxTrig, sin2 \in (0 - MaxTrig)..MaxTrig :
        /\ nsteps = 0
        /\ Call_rotate2("w", "v", "axis", cos2, sin2)
        /\ nsteps' = 1

NextRotate == RunRotate2

SpecRotate == InitRotate /\ [][NextRotate]_vars

-----------------------------------------------------------------------------
(* The claims.                                                             *)

\* C1 (Spec): after import no call changes an entry METRIC[j][k][i]: every array
\* MultiVector.METRIC refers to holds the components it was built with.
C1_MetricImmutable ==
    \A j \in Idx, k \in Idx :
        heap[METRIC[j + 1][k + 1]] = ModuleHeap[METRIC[j + 1][k + 1]]

\* the component vector of basis element n (1 at its index, 0 elsewhere)
Basis(n) == NamedComp(n)
VectorBasis == {VECX, VECY, VECZ}
AxisBasis == {AXIX, AXIY, AXIZ}
A_ == heap[reg["a"]]
Product(r) == heap[reg[r]]

\* C2 (SpecAlgebra): the geometric product is associative and distributes over
\* addition: (a*b)*c = a*(b*c) and a*(b+c) = a*b + a*c, component by component.
C2_AssocDistrib ==
    AlgDone => /\ Product("ab_c") = Product("a_bc")
               /\ Product("a_s") = Product("ab_ac")

\* C2's case: a has two non-zero components, a and b do not commute, b # c, and
\* the triple product is not zero.
C2_Witness ==
    /\ AlgDone
    /\ Cardinality({i \in Idx : A_[i] # 0}) = 2
    /\ Product("ab") # Product("ba")
    /\ reg["b"] # reg["c"]
    /\ \E i \in Idx : Product("ab_c")[i] # 0
    /\ \E i \in Idx : Product("a_s")[i] < 0 - 1

\* C3 (SpecAlgebra): the products of the basis constants obey the Cl(3,0)
\* relations: vectors square to ONE; distinct vectors anticommute and multiply to
\* plus or minus one bivector, VECX*VECY = AXIX and VECY*VECX = -AXIX; AXIX, AXIY,
\* AXIZ and IMAG square to -ONE; (VECX*VECY)*VECZ = IMAG; IMAG commutes with all
\* eight basis elements.
C3_BasisRelations ==
    AlgDone =>
        \A an \in Named \ {ZERO} :
            A_ = Basis(an) =>
                LET bn == reg["b"]
                    cn == reg["c"]
                IN  /\ (an \in VectorBasis /\ bn = an) => Product("ab") = Basis(ONE)
                    /\ (an \in VectorBasis /\ bn \in VectorBasis /\ bn # an) =>
                          /\ Product("ab") = neg(Product("ba"))
                          /\ \E x \in AxisBasis :
                                Product("ab") \in {Basis(x), neg(Basis(x))}
                    /\ (an = VECX /\ bn = VECY) =>
                          /\ Product("ab") = Basis(AXIX)
                          /\ Product("ba") = neg(Basis(AXIX))
                    /\ (an \in AxisBasis \cup {IMAG} /\ bn = an) =>
                          Product("ab") = neg(Basis(ONE))
                    /\ (an = VECX /\ bn = VECY /\ cn = VECZ) =>
                          Product("ab_c") = Basis(IMAG)
                    /\ (an = IMAG) => Product("ab") = Product("ba")

\* C3's case: VECX, VECY and VECZ have been multiplied.
C3_Witness ==
    /\ AlgDone
    /\ A_ = Basis(VECX) /\ reg["b"] = VECY /\ reg["c"] = VECZ
    /\ Product("ab") = Basis(AXIX)

\* Cl(3,0) from its definition, for C4: the basis element at index n as a sign
\* times the product of the generators in RefGens[n + 1] in increasing order, with
\* the indices named 1, e1, e2, e3, e23, e31, e12, e123 (e31 = -e1e3)
RefGens == <<{}, {1}, {2}, {3}, {2, 3}, {1, 3}, {1, 2}, {1, 2, 3}>>
RefSign == <<1, 1, 1, 1, 1, 0 - 1, 1, 1>>

\* the sign of bringing the generators of s followed by those of t into increasing
\* order, by ei*ej = -ej*ei; equal neighbours then cancel by ei*ei = +1
Reorder(s, t) ==
    IF Cardinality({u \in s \X t : u[1] > u[2]}) % 2 = 0 THEN 1 ELSE 0 - 1

RefProduct(j, k) ==
    LET gens == (RefGens[j + 1] \cup RefGens[k + 1]) \ (RefGens[j + 1] \cap RefGens[k + 1])
        m == CHOOSE n \in Idx : RefGens[n + 1] = gens
        sign == RefSign[j + 1] * RefSign[k + 1] * Reorder(RefGens[j + 1], RefGens[k + 1])
                    * RefSign[m + 1]
    IN  [i \in Idx |-> IF i = m THEN sign ELSE 0]

\* C4 (SpecAlgebra): with the indices 0..7 named 1, e1, e2, e3, e23, e31, e12,
\* e123, METRIC[j][k] is the signed basis element that is the Cl(3,0) product of
\* element j with element k, for every j and k.
C4_MetricIsCl30 ==
    \A j \in Idx, k \in Idx : heap[METRIC[j + 1][k + 1]] = RefProduct(j, k)

\* C5 (SpecRotate): rotate2(get_vector(1,0,0), get_axis(0,0,1), c, c) equals
\* 2*c*c*get_vector(0,1,0): a quarter turn about the z axis takes VECX to VECY.
C5_QuarterTurn ==
    (/\ last.op = "rotate2"
     /\ heap[reg["v"]] = get_vector(1, 0, 0)
     /\ heap[reg["axis"]] = get_axis(0, 0, 1)
     /\ last.key = last.val)
        => heap[reg["w"]] = scale(get_vector(0, 1, 0), 2 * last.key * last.key)

\* C6 (Spec): value[i] and value[i] = x succeed only for i in 0..7; for every
\* other integer i both fail with the index error and change no component.
C6_IndexOutOfRange ==
    [][(/\ last'.op \in {"getitem", "setitem"}
        /\ last'.kind = "int"
        /\ last'.key \notin 0..7)
          => (last'.outcome = "IndexError" /\ heap' = heap)]_vars

\* C7 (Spec): a * other and other * a, with other neither a MultiVector nor a
\* number, fail with an error and never complete normally.
C7_UnsupportedOperand ==
    (last.op \in {"mul", "rmul"} /\ last.kind = "other") => last.outcome # "returned"

\* C8 (Spec): linear_combination with sequences of different lengths fails with
\* an error instead of returning normally.
C8_LengthMismatch ==
    (last.op = "linear_combination" /\ last.key # last.val) => last.outcome # "returned"

Operators == {"neg", "add", "sub", "mul", "rmul", "linear_combination", "get_vector",
              "get_axis", "rotor", "rotor2", "rotate", "rotate2", "rotate3"}

\* C9 (Spec): every operator is pure and returns a new value: the call changes no
\* object that exists (operand or named constant), its result is none of the named
\* constants and nothing another variable holds, and a write to the result just
\* returned changes no named constant.
C9_PureFresh ==
    [][/\ last'.op \in Operators =>
            /\ \A a \in DOMAIN heap \ {Slot(last'.dst)} :
                  a \in DOMAIN heap' /\ heap'[a] = heap[a]
            /\ reg'[last'.dst] \notin Named
            /\ \A r \in DOMAIN reg \ {last'.dst} :
                  reg'[r] = reg[r] /\ (reg'[r] = reg'[last'.dst] => reg'[r] = NoneRef)
       /\ (last.op \in Operators /\ last'.op = "setitem" /\ last'.dst = last.dst) =>
            \A n \in Named : heap'[n] = heap[n]]_vars

Sq(x) == x * x
VecNorm2(x) == Sq(x[1]) + Sq(x[2]) + Sq(x[3])
AxisNorm2(x) == Sq(x[4]) + Sq(x[5]) + Sq(x[6])

\* C10 (SpecRotate): for a pure vector v, the vector part of rotate2(v, axis, c, s)
\* has squared norm (c*c + s*s*|axis|^2)^2 * |v|^2.
C10_NormScale ==
    last.op = "rotate2" =>
        VecNorm2(heap[reg["w"]])
            = Sq(Sq(last.key) + Sq(last.val) * AxisNorm2(heap[reg["axis"]]))
                * VecNorm2(heap[reg["v"]])

\* C10's case: a non-zero vector is turned about an axis that is not a unit
\* bivector and not along a coordinate, by a half angle with both parts non-zero,
\* and the result differs from the vector.
C10_Witness ==
    /\ last.op = "rotate2"
    /\ last.key # 0 /\ last.val # 0
    /\ AxisNorm2(heap[reg["axis"]]) > 1
    /\ VecNorm2(heap[reg["v"]]) > 1
    /\ heap[reg["w"]] # heap[reg["v"]]
    /\ VecNorm2(heap[reg["w"]]) > VecNorm2(heap[reg["v"]])

=============================================================================
